---- MODULE Spec2Model ----
(***************************************************************************)
(* Model of timetable/serializers.py of SchoolCalendar: the hour           *)
(* accounting of HoursPerTeacherInClassSerializer and the substitution     *)
(* fields of TeacherSubstitutionSerializer, over the HourSlot and          *)
(* Assignment tables.                                                      *)
(*                                                                         *)
(* Times of day are minutes since midnight, timedeltas are seconds, dates  *)
(* are day numbers with day 0 a Monday.                                    *)
(***************************************************************************)
EXTENDS Integers, Sequences, FiniteSets, TLC

VARIABLES
    hour_slots,     \* the HourSlot table, a sequence in primary-key order
    assignments,    \* the Assignment table, a sequence in primary-key order
    call            \* the last request handled: its inputs, locals and returned fields

vars == <<hour_slots, assignments, call>>

\* Python's None, as an outcome
None == "None"

\* an absent start_date or end_date query parameter (query_params.get gives None)
NoDate == -1

-----------------------------------------------------------------------------
\* Bounds of the model.

\* rows of the Assignment table
MaxAssignments == 2

\* rows of the HourSlot table in the hour-accounting specification
MaxHourSlots == 2

\* rows of the HourSlot table in the substitution specification
MaxGridSlots == 2

-----------------------------------------------------------------------------
\* Dates and durations.

\* datetime.date.weekday(): Monday is 0, Sunday is 6
weekday(date) == date % 7

\* Django's date__week_day lookup: Sunday is 1, Saturday is 7
date__week_day(date) == ((date + 1) % 7) + 1

\* utils.convert_weekday_into_0_6_format: Django's 1..7 from Sunday into 0..6 from Monday
convert_weekday_into_0_6_format(day) == (day + 5) % 7

\* datetime.combine(date.min, hour_end) - datetime.combine(date.min, hour_start)
time_difference(hour_start, hour_end) == (hour_end - hour_start) * 60

\* timedelta.seconds: the seconds field of the normalised (days, seconds) pair
timedelta_seconds(td) == td % 86400

\* int(x / 3600) for an integer number of seconds x: truncation toward zero
int_hours(x) == IF x >= 0 THEN x \div 3600 ELSE -((-x) \div 3600)

-----------------------------------------------------------------------------
\* Rows the requests of the model draw from.

Assignment(teacher, course, school_year, bes, substitution, date, hour_start, hour_end) ==
    [teacher |-> teacher, course |-> course, subject |-> "maths", school |-> "school",
     school_year |-> school_year, bes |-> bes, substitution |-> substitution,
     date |-> date, hour_start |-> hour_start, hour_end |-> hour_end]

HourSlot(day_of_week, starts_at, ends_at, hour_number, legal_duration, school_year) ==
    [day_of_week |-> day_of_week, starts_at |-> starts_at, ends_at |-> ends_at,
     hour_number |-> hour_number, legal_duration |-> legal_duration,
     school |-> "school", school_year |-> school_year]

\* Assignment rows of the hour-accounting specification
HoursAssignments ==
    { Assignment("t1", "c1", 1, FALSE, FALSE, 1, 480, 540),
      Assignment("t1", "c1", 1, FALSE, FALSE, 1, 480, 530),
      Assignment("t1", "c1", 1, FALSE, FALSE, 0, 480, 540),
      Assignment("t1", "c1", 1, FALSE, FALSE, 2, 0, 239),
      Assignment("t1", "c1", 1, FALSE, FALSE, 3, 0, 1439),
      Assignment("t1", "c1", 1, FALSE, FALSE, 1, 0, 30),
      Assignment("t1", "c1", 1, FALSE, FALSE, 2, 0, 89),
      Assignment("t1", "c1", 1, TRUE, FALSE, 1, 480, 540),
      Assignment("t2", "c1", 1, FALSE, FALSE, 1, 480, 540) }

\* HourSlot rows of the hour-accounting specification
HoursHourSlots ==
    { HourSlot(1, 480, 540, 1, 3600, 1),
      HourSlot(1, 480, 540, 1, 3300, 1) }

\* HoursPerTeacherInClass rows
HoursPerTeacherInClass ==
    { [teacher |-> "t1", course |-> "c1", subject |-> "maths", school |-> "school",
       school_year |-> 1, hours |-> 4, hours_bes |-> 0],
      [teacher |-> "t2", course |-> "c1", subject |-> "maths", school |-> "school",
       school_year |-> 1, hours |-> 2, hours_bes |-> 1] }

\* values of the start_date and end_date query parameters
StartDates == {NoDate, 1}
EndDates == {NoDate, 2}

-----------------------------------------------------------------------------
\* HoursPerTeacherInClassSerializer

\* the key of map_hour_slots
slot_key(el) == <<el.day_of_week, el.starts_at, el.ends_at>>

\* map_hour_slots after the first n rows of hours_slots have been stored
RECURSIVE map_hour_slots(_, _)
map_hour_slots(hours_slots, n) ==
    IF n = 0 THEN <<>>
    ELSE LET m == map_hour_slots(hours_slots, n - 1)
             el == hours_slots[n]
         IN [k \in (DOMAIN m) \cup {slot_key(el)} |->
                IF k = slot_key(el) THEN el.legal_duration ELSE m[k]]

\* whether the three nested membership tests find the assignment in the map
in_map_hour_slots(el, m) == <<el.date__week_day, el.hour_start, el.hour_end>> \in DOMAIN m

\* the second loop, were the map searched by day and start alone
legal_duration_of_any_end(el, m) ==
    IF \E k \in DOMAIN m : k[1] = el.date__week_day /\ k[2] = el.hour_start
    THEN m[CHOOSE k \in DOMAIN m : k[1] = el.date__week_day /\ k[2] = el.hour_start]
    ELSE time_difference(el.hour_start, el.hour_end)

\* el['legal_duration'] as the second loop sets it
legal_duration_of(el, m) ==
    IF in_map_hour_slots(el, m)
    THEN m[<<el.date__week_day, el.hour_start, el.hour_end>>]
    ELSE time_difference(el.hour_start, el.hour_end)

\* the assignments list after the second loop
with_legal_duration(asgs, hours_slots) ==
    LET m == map_hour_slots(hours_slots, Len(hours_slots))
    IN [i \in 1..Len(asgs) |->
           [date__week_day |-> asgs[i].date__week_day, hour_start |-> asgs[i].hour_start,
            hour_end |-> asgs[i].hour_end, legal_duration |-> legal_duration_of(asgs[i], m)]]

\* total after the first n elements have been added
RECURSIVE sum_legal_duration(_, _)
sum_legal_duration(asgs, n) ==
    IF n = 0 THEN 0 ELSE sum_legal_duration(asgs, n - 1) + asgs[n].legal_duration

compute_total_hours_assignments(asgs, hours_slots) ==
    LET done == with_legal_duration(asgs, hours_slots)
    IN sum_legal_duration(done, Len(done))

\* Assignment.objects.filter(teacher=..., ..., bes=bes)
filter_obj(obj, bes) ==
    SelectSeq(assignments, LAMBDA a:
        /\ a.teacher = obj.teacher
        /\ a.course = obj.course
        /\ a.subject = obj.subject
        /\ a.school = obj.school
        /\ a.school_year = obj.school_year
        /\ a.bes = bes)

\* the start filter, were it date__gt
filter_start_date_exclusive(rows, start_date) ==
    IF start_date # NoDate THEN SelectSeq(rows, LAMBDA a: a.date > start_date) ELSE rows

\* if start_date: assignments = assignments.filter(date__gte=start_date)
filter_start_date(rows, start_date) ==
    IF start_date # NoDate THEN SelectSeq(rows, LAMBDA a: a.date >= start_date) ELSE rows

\* if end_date: assignments = assignments.filter(date__lte=end_date)
filter_end_date(rows, end_date) ==
    IF end_date # NoDate THEN SelectSeq(rows, LAMBDA a: a.date <= end_date) ELSE rows

\* .values('date__week_day', 'hour_start', 'hour_end') and the weekday conversion loop
values_converted(rows) ==
    [i \in 1..Len(rows) |->
        [date__week_day |-> convert_weekday_into_0_6_format(date__week_day(rows[i].date)),
         hour_start |-> rows[i].hour_start, hour_end |-> rows[i].hour_end]]

\* the queryset of a missing-hours method once the date filters are applied
filtered_rows(obj, bes, start_date, end_date) ==
    filter_end_date(filter_start_date(filter_obj(obj, bes), start_date), end_date)

\* the assignments list a missing-hours method hands to compute_total_hours_assignments
filtered_assignments(obj, bes, start_date, end_date) ==
    values_converted(filtered_rows(obj, bes, start_date, end_date))

\* HourSlot.objects.filter(school=obj.school, school_year=obj.school_year)
filter_hour_slots(obj) ==
    SelectSeq(hour_slots, LAMBDA s: s.school = obj.school /\ s.school_year = obj.school_year)

\* obj.hours - int(total.seconds/3600)
missing_from_total(required, total) == required - int_hours(timedelta_seconds(total))

get_missing_hours(obj, start_date, end_date) ==
    missing_from_total(obj.hours,
        compute_total_hours_assignments(filtered_assignments(obj, FALSE, start_date, end_date),
                                        filter_hour_slots(obj)))

get_missing_hours_bes(obj, start_date, end_date) ==
    missing_from_total(obj.hours_bes,
        compute_total_hours_assignments(filtered_assignments(obj, TRUE, start_date, end_date),
                                        filter_hour_slots(obj)))

-----------------------------------------------------------------------------
\* Requests

NoCall == [kind |-> "none"]

\* an Assignment row is created (AssignmentSerializer.validate: hour_start <= hour_end)
CreateAssignment(rows) ==
    /\ Len(assignments) < MaxAssignments
    /\ \E a \in rows :
          /\ a.hour_start <= a.hour_end
          /\ assignments' = Append(assignments, a)
    /\ call' = [kind |-> "created"]
    /\ UNCHANGED hour_slots

\* an HourSlot row is created
CreateHourSlot(rows, max) ==
    /\ Len(hour_slots) < max
    /\ \E s \in rows : hour_slots' = Append(hour_slots, s)
    /\ call' = [kind |-> "created"]
    /\ UNCHANGED assignments

\* one HoursPerTeacherInClass row is serialized: both missing-hours fields
SerializeHoursPerTeacherInClass ==
    \E obj \in HoursPerTeacherInClass, start_date \in StartDates, end_date \in EndDates :
        LET rows == filtered_rows(obj, FALSE, start_date, end_date)
            rows_bes == filtered_rows(obj, TRUE, start_date, end_date)
            hours_slots == filter_hour_slots(obj)
        IN /\ call' = [kind |-> "hours", obj |-> obj,
                       start_date |-> start_date, end_date |-> end_date,
                       rows |-> rows,
                       rows_bes |-> rows_bes,
                       assignments |-> with_legal_duration(values_converted(rows), hours_slots),
                       assignments_bes |->
                           with_legal_duration(values_converted(rows_bes), hours_slots),
                       total |->
                           compute_total_hours_assignments(values_converted(rows), hours_slots),
                       total_bes |->
                           compute_total_hours_assignments(values_converted(rows_bes), hours_slots),
                       raised |-> None,
                       missing_hours |-> get_missing_hours(obj, start_date, end_date),
                       missing_hours_bes |-> get_missing_hours_bes(obj, start_date, end_date)]
           /\ UNCHANGED <<hour_slots, assignments>>

Init ==
    /\ hour_slots = <<>>
    /\ assignments = <<>>
    /\ call = NoCall

CreateHoursAssignment == CreateAssignment(HoursAssignments)
CreateHoursHourSlot == CreateHourSlot(HoursHourSlots, MaxHourSlots)

Next ==
    \/ CreateHoursAssignment
    \/ CreateHoursHourSlot
    \/ SerializeHoursPerTeacherInClass

\* the hour-accounting specification
Spec == Init /\ [][Next]_vars

-----------------------------------------------------------------------------
\* TeacherSubstitutionSerializer

\* Teacher rows (obj): the candidate substitutes
Teachers ==
    { [id |-> "t1", school |-> "school"],
      [id |-> "t2", school |-> "school"] }

\* Assignment rows of the substitution specification
SubstAssignments ==
    { Assignment("t2", "c1", 1, FALSE, FALSE, 0, 480, 540),
      Assignment("t2", "c1", 1, FALSE, TRUE, 0, 540, 600),
      Assignment("t1", "c1", 1, FALSE, FALSE, 0, 480, 540),
      Assignment("t1", "c1", 1, FALSE, TRUE, 0, 540, 600),
      Assignment("t1", "c1", 1, FALSE, TRUE, 7, 540, 600),
      Assignment("t1", "c1", 2, FALSE, TRUE, 0, 540, 600),
      Assignment("t1", "c1", 1, FALSE, FALSE, 0, 540, 590) }

\* HourSlot rows of the substitution specification
SubstHourSlots ==
    { HourSlot(0, 480, 540, 1, 3600, 1),
      HourSlot(0, 540, 600, 2, 3300, 1),
      HourSlot(0, 600, 660, 3, 3600, 1),
      HourSlot(1, 540, 600, 2, 3300, 1) }

\* the primary key .first() returns for the rows with a key in pks: the least, 0 for None
first(pks) == IF pks = {} THEN 0 ELSE CHOOSE j \in pks : \A k \in pks : j <= k

\* the count, were the school-year filter left out
get_substitutions_made_so_far_any_year(obj, assignment_to_substitute) ==
    Cardinality({ i \in 1..Len(assignments) :
        /\ assignments[i].teacher = obj.id
        /\ assignments[i].school = obj.school
        /\ assignments[i].substitution })

\* Assignment.objects.filter(teacher=obj.id, school=obj.school, school_year=..., substitution=True).count()
get_substitutions_made_so_far(obj, assignment_to_substitute) ==
    Cardinality({ i \in 1..Len(assignments) :
        /\ assignments[i].teacher = obj.id
        /\ assignments[i].school = obj.school
        /\ assignments[i].school_year = assignment_to_substitute.school_year
        /\ assignments[i].substitution })

\* the related slot, were the ends_at filter left out
related_hour_slot_any_end(obj, assignment_to_substitute) ==
    first({ j \in 1..Len(hour_slots) :
        /\ hour_slots[j].starts_at = assignment_to_substitute.hour_start
        /\ hour_slots[j].day_of_week = weekday(assignment_to_substitute.date)
        /\ hour_slots[j].school = obj.school
        /\ hour_slots[j].school_year = assignment_to_substitute.school_year })

\* HourSlot.objects.filter(starts_at=..., ends_at=..., day_of_week=..., school=..., school_year=...).first()
related_hour_slot(obj, assignment_to_substitute) ==
    first({ j \in 1..Len(hour_slots) :
        /\ hour_slots[j].starts_at = assignment_to_substitute.hour_start
        /\ hour_slots[j].ends_at = assignment_to_substitute.hour_end
        /\ hour_slots[j].day_of_week = weekday(assignment_to_substitute.date)
        /\ hour_slots[j].school = obj.school
        /\ hour_slots[j].school_year = assignment_to_substitute.school_year })

\* HourSlot.objects.filter(day_of_week=..., school=obj.school, school_year=...): the rows
\* the unordered query of get_has_hour_after can yield first
day_hour_slots(obj, assignment_to_substitute) ==
    { j \in 1..Len(hour_slots) :
        /\ hour_slots[j].day_of_week = weekday(assignment_to_substitute.date)
        /\ hour_slots[j].school = obj.school
        /\ hour_slots[j].school_year = assignment_to_substitute.school_year }

\* max(....values_list('hour_number')[0]): the greatest element of the first row, a
\* 1-tuple holding that row's hour_number
max_of_first_row(first_row) == hour_slots[first_row].hour_number

\* HourSlot.objects.filter(school=..., school_year=..., hour_number=hour_number, day_of_week=...).first()
hour_slot_numbered(obj, assignment_to_substitute, hour_number) ==
    first({ j \in 1..Len(hour_slots) :
        /\ hour_slots[j].school = obj.school
        /\ hour_slots[j].school_year = assignment_to_substitute.school_year
        /\ hour_slots[j].hour_number = hour_number
        /\ hour_slots[j].day_of_week = weekday(assignment_to_substitute.date) })

\* Assignment.objects.filter(teacher=obj, date=..., school=..., school_year=...,
\*                           hour_start=slot.starts_at, hour_end=slot.ends_at).exists()
assignment_exists(obj, assignment_to_substitute, slot) ==
    \E i \in 1..Len(assignments) :
        /\ assignments[i].teacher = obj.id
        /\ assignments[i].date = assignment_to_substitute.date
        /\ assignments[i].school = obj.school
        /\ assignments[i].school_year = assignment_to_substitute.school_year
        /\ assignments[i].hour_start = slot.starts_at
        /\ assignments[i].hour_end = slot.ends_at

Returned(value) == [raised |-> None, value |-> value]
Raised(error) == [raised |-> error, value |-> FALSE]

\* get_has_hour_after, were the later slot looked up at hour_number - 1 as in
\* get_has_hour_before
get_has_hour_after_minus_one(obj, assignment_to_substitute, first_row) ==
    LET related == related_hour_slot(obj, assignment_to_substitute)
    IN IF related = 0 THEN Returned(FALSE)
       ELSE IF first_row = 0 THEN Raised("IndexError")
       ELSE IF hour_slots[related].hour_number = max_of_first_row(first_row)
            THEN Returned(FALSE)
       ELSE LET later == hour_slot_numbered(obj, assignment_to_substitute,
                                            hour_slots[related].hour_number - 1)
            IN IF later = 0 THEN Returned(FALSE)
               ELSE Returned(assignment_exists(obj, assignment_to_substitute, hour_slots[later]))

\* first_row: the primary key of the row the unordered day query yields at index 0,
\* 0 when the query is empty
get_has_hour_after(obj, assignment_to_substitute, first_row) ==
    LET related == related_hour_slot(obj, assignment_to_substitute)
    IN IF related = 0 THEN Returned(FALSE)
       ELSE IF first_row = 0 THEN Raised("IndexError")
       ELSE IF hour_slots[related].hour_number = max_of_first_row(first_row)
            THEN Returned(FALSE)
       ELSE LET later == hour_slot_numbered(obj, assignment_to_substitute,
                                            hour_slots[related].hour_number + 1)
            IN IF later = 0 THEN Returned(FALSE)
               ELSE Returned(assignment_exists(obj, assignment_to_substitute, hour_slots[later]))

get_has_hour_before(obj, assignment_to_substitute) ==
    LET related == related_hour_slot(obj, assignment_to_substitute)
    IN IF related = 0 THEN Returned(FALSE)
       ELSE IF hour_slots[related].hour_number = 1 THEN Returned(FALSE)
       ELSE LET previous == hour_slot_numbered(obj, assignment_to_substitute,
                                               hour_slots[related].hour_number - 1)
            IN IF previous = 0 THEN Returned(FALSE)
               ELSE Returned(assignment_exists(obj, assignment_to_substitute,
                                               hour_slots[previous]))

\* the rows the day query of get_has_hour_after can yield at index 0
first_rows(obj, assignment_to_substitute) ==
    IF day_hour_slots(obj, assignment_to_substitute) = {} THEN {0}
    ELSE day_hour_slots(obj, assignment_to_substitute)

\* one Teacher row is serialized for the assignment to substitute: the three fields
SerializeTeacherSubstitution ==
    \E obj \in Teachers, assignment_pk \in 1..Len(assignments) :
        LET assignment_to_substitute == assignments[assignment_pk]
        IN \E first_row \in first_rows(obj, assignment_to_substitute) :
              LET before == get_has_hour_before(obj, assignment_to_substitute)
                  after == get_has_hour_after(obj, assignment_to_substitute, first_row)
              IN /\ call' = [kind |-> "substitution", obj |-> obj,
                             assignment_to_substitute |-> assignment_to_substitute,
                             raised |-> IF before.raised # None THEN before.raised
                                        ELSE after.raised,
                             has_hour_before |-> before.value,
                             has_hour_after |-> after.value,
                             substitutions_made_so_far |->
                                 get_substitutions_made_so_far(obj, assignment_to_substitute)]
                 /\ UNCHANGED <<hour_slots, assignments>>

CreateSubstAssignment == CreateAssignment(SubstAssignments)
CreateSubstHourSlot == CreateHourSlot(SubstHourSlots, MaxGridSlots)

NextSubst ==
    \/ CreateSubstAssignment
    \/ CreateSubstHourSlot
    \/ SerializeTeacherSubstitution

\* the substitution specification
SpecSubst == Init /\ [][NextSubst]_vars

-----------------------------------------------------------------------------
\* Properties of the hour accounting

\* the sum of a sequence of durations
RECURSIVE SeqSum(_)
SeqSum(q) == IF q = <<>> THEN 0 ELSE q[1] + SeqSum(Tail(q))

\* the legal durations of a list of assignments, in order
Credited(asgs) == [i \in 1..Len(asgs) |-> asgs[i].legal_duration]

\* whether a date lies in the inclusive window of the two query parameters
InWindow(date, start_date, end_date) ==
    /\ start_date = NoDate \/ start_date <= date
    /\ end_date = NoDate \/ date <= end_date

\* the primary keys of the rows of obj's teacher, course, subject, school, school-year
\* and kind that lie in the window
WindowPks(obj, bes, start_date, end_date) ==
    { i \in 1..Len(assignments) :
        /\ assignments[i].teacher = obj.teacher
        /\ assignments[i].course = obj.course
        /\ assignments[i].subject = obj.subject
        /\ assignments[i].school = obj.school
        /\ assignments[i].school_year = obj.school_year
        /\ assignments[i].bes = bes
        /\ InWindow(assignments[i].date, start_date, end_date) }

\* the rows of the Assignment table with a primary key in pks, in primary-key order
RECURSIVE RowsAt(_, _)
RowsAt(pks, n) ==
    IF n = 0 THEN <<>>
    ELSE IF n \in pks THEN Append(RowsAt(pks, n - 1), assignments[n]) ELSE RowsAt(pks, n - 1)

\* the slots of obj's school and school-year whose day, start and end are the weekday,
\* start and end of the list element el
SlotsOf(el, obj) ==
    { j \in 1..Len(hour_slots) :
        /\ hour_slots[j].school = obj.school
        /\ hour_slots[j].school_year = obj.school_year
        /\ hour_slots[j].day_of_week = el.date__week_day
        /\ hour_slots[j].starts_at = el.hour_start
        /\ hour_slots[j].ends_at = el.hour_end }

\* whether the legal durations of asgs are, element by element, those the grid or the
\* clock give
CreditedByGrid(asgs, obj) ==
    \A i \in 1..Len(asgs) :
        IF SlotsOf(asgs[i], obj) # {}
        THEN \E j \in SlotsOf(asgs[i], obj) :
                asgs[i].legal_duration = hour_slots[j].legal_duration
        ELSE asgs[i].legal_duration = (asgs[i].hour_end - asgs[i].hour_start) * 60

\* C1: missing hours is the required hours minus the whole hours of the credited total,
\* whatever the total, also when it reaches 24 hours (stated as the claim has it)
C1_MissingIsRequiredMinusFloor ==
    call.kind = "hours" =>
        /\ call.missing_hours = call.obj.hours - (call.total \div 3600)
        /\ call.missing_hours_bes = call.obj.hours_bes - (call.total_bes \div 3600)

\* C2: every occurrence handed to compute_total_hours_assignments is credited the legal
\* duration of a slot of the school and school-year with its weekday, start and end
\* when there is one, else its end minus its start; the total is the sum of these
C2_CreditedDuration ==
    call.kind = "hours" =>
        /\ CreditedByGrid(call.assignments, call.obj)
        /\ CreditedByGrid(call.assignments_bes, call.obj)
        /\ call.total = SeqSum(Credited(call.assignments))
        /\ call.total_bes = SeqSum(Credited(call.assignments_bes))

\* C2 witness: a call in which one occurrence took a slot's legal duration that is not
\* its clock length, and another, with that slot's day and start but another end, its
\* clock length
C2_Witness ==
    /\ call.kind = "hours"
    /\ \E i, k \in 1..Len(call.assignments) :
          /\ \E j \in SlotsOf(call.assignments[i], call.obj) :
                /\ hour_slots[j].legal_duration
                      # (call.assignments[i].hour_end - call.assignments[i].hour_start) * 60
                /\ hour_slots[j].day_of_week = call.assignments[k].date__week_day
                /\ hour_slots[j].starts_at = call.assignments[k].hour_start
                /\ hour_slots[j].ends_at # call.assignments[k].hour_end
          /\ SlotsOf(call.assignments[k], call.obj) = {}
          /\ call.total = call.assignments[i].legal_duration
                            + (call.assignments[k].hour_end - call.assignments[k].hour_start) * 60

\* C3: the hours counted are the floor of the summed credited duration
\* (stated as the claim has it: counted hours h with h <= total < h + 1, in hours)
C3_FloorOfSum ==
    call.kind = "hours" =>
        LET counted == call.obj.hours - call.missing_hours
        IN /\ counted * 3600 <= call.total
           /\ call.total < (counted + 1) * 3600

\* whether two rows of the grid handed to the map share the key (day, start, end)
HasDuplicateKey(hours_slots) ==
    \E i, j \in 1..Len(hours_slots) : i < j /\ slot_key(hours_slots[i]) = slot_key(hours_slots[j])

\* C7: building the map from slots two of which share a key is rejected with a
\* DuplicateSlotError (stated as the claim has it)
C7_DuplicateSlotRejected ==
    (call.kind = "hours" /\ HasDuplicateKey(filter_hour_slots(call.obj)))
        => call.raised = "DuplicateSlotError"

\* C9: the rows that contribute to the total are exactly those of the teacher, course,
\* subject, school, school-year and kind dated within the inclusive window, an absent
\* bound leaving its side open
C9_InclusiveWindow ==
    call.kind = "hours" =>
        /\ call.rows = RowsAt(WindowPks(call.obj, FALSE, call.start_date, call.end_date),
                              Len(assignments))
        /\ call.rows_bes = RowsAt(WindowPks(call.obj, TRUE, call.start_date, call.end_date),
                                  Len(assignments))
        /\ Len(call.assignments) = Len(call.rows)
        /\ Len(call.assignments_bes) = Len(call.rows_bes)
        /\ call.total = SeqSum(Credited(call.assignments))

\* C9 witness: a call with both bounds given that counted a row dated on a bound and
\* left out a row dated the day outside that bound
C9_Witness ==
    /\ call.kind = "hours"
    /\ call.start_date # NoDate
    /\ call.end_date # NoDate
    /\ \E i, k \in WindowPks(call.obj, FALSE, NoDate, NoDate) :
          /\ \/ assignments[i].date = call.start_date /\ assignments[k].date = call.start_date - 1
             \/ assignments[i].date = call.end_date /\ assignments[k].date = call.end_date + 1
          /\ call.rows = <<assignments[i]>>
          /\ call.total > 0

-----------------------------------------------------------------------------
\* Properties of the substitution fields

\* the grid of a substitution call: the slots of the target's school, school-year and weekday
Grid(c) ==
    { j \in 1..Len(hour_slots) :
        /\ hour_slots[j].school = c.assignment_to_substitute.school
        /\ hour_slots[j].school_year = c.assignment_to_substitute.school_year
        /\ hour_slots[j].day_of_week = weekday(c.assignment_to_substitute.date) }

\* the slots of the grid with the target's start and end
TargetSlots(c) ==
    { j \in Grid(c) :
        /\ hour_slots[j].starts_at = c.assignment_to_substitute.hour_start
        /\ hour_slots[j].ends_at = c.assignment_to_substitute.hour_end }

\* the slots of the grid with ordinal n
Numbered(c, n) == { j \in Grid(c) : hour_slots[j].hour_number = n }

\* whether slot j has the greatest ordinal of the grid
IsLastOfDay(c, j) == \A k \in Grid(c) : hour_slots[k].hour_number <= hour_slots[j].hour_number

\* whether the grid has one slot for each ordinal and for each (start, end)
WellFormedGrid(c) ==
    \A j, k \in Grid(c) :
        j # k => /\ hour_slots[j].hour_number # hour_slots[k].hour_number
                 /\ <<hour_slots[j].starts_at, hour_slots[j].ends_at>>
                        # <<hour_slots[k].starts_at, hour_slots[k].ends_at>>

\* whether the candidate has an occurrence on the target's date, in its school and
\* school-year, with the start and end of slot j
CandidateAt(c, j) ==
    \E i \in 1..Len(assignments) :
        /\ assignments[i].teacher = c.obj.id
        /\ assignments[i].date = c.assignment_to_substitute.date
        /\ assignments[i].school = c.assignment_to_substitute.school
        /\ assignments[i].school_year = c.assignment_to_substitute.school_year
        /\ assignments[i].hour_start = hour_slots[j].starts_at
        /\ assignments[i].hour_end = hour_slots[j].ends_at

\* C4: with the target on a slot that is not the first (not the last) of its day and the
\* slot one ordinal before (after) registered, has_hour_before (has_hour_after) is true
\* exactly when the candidate has an occurrence at that neighbouring slot on the
\* target's date (stated as the claim has it, for another teacher's target on a grid
\* with one slot per ordinal)
C4_AdjacentIff ==
    (/\ call.kind = "substitution"
     /\ call.obj.id # call.assignment_to_substitute.teacher
     /\ WellFormedGrid(call)) =>
        \A j \in TargetSlots(call) :
            /\ (hour_slots[j].hour_number # 1
                    /\ Numbered(call, hour_slots[j].hour_number - 1) # {})
                => (call.has_hour_before
                      <=> \E p \in Numbered(call, hour_slots[j].hour_number - 1) :
                              CandidateAt(call, p))
            /\ (~IsLastOfDay(call, j)
                    /\ Numbered(call, hour_slots[j].hour_number + 1) # {})
                => (call.has_hour_after
                      <=> \E q \in Numbered(call, hour_slots[j].hour_number + 1) :
                              CandidateAt(call, q))

\* C5: with the target on the slot of ordinal 1, has_hour_before is false, and with
\* the target on the slot of greatest ordinal of its day, has_hour_after is false,
\* whatever occurrences the candidate has
C5_BoundaryAdjacency ==
    call.kind = "substitution" =>
        \A j \in TargetSlots(call) :
            /\ hour_slots[j].hour_number = 1 => ~call.has_hour_before
            /\ IsLastOfDay(call, j) => ~call.has_hour_after

\* C5 witness: a target on the last slot of a day of several slots, a candidate with an
\* occurrence at the slot before it: has_hour_before true, has_hour_after false
C5_Witness ==
    /\ call.kind = "substitution"
    /\ \E j \in TargetSlots(call) :
          /\ IsLastOfDay(call, j)
          /\ hour_slots[j].hour_number # 1
          /\ \E p \in Numbered(call, hour_slots[j].hour_number - 1) : CandidateAt(call, p)
    /\ call.has_hour_before
    /\ ~call.has_hour_after

\* C6: the adjacency fields raise nothing; with no slot on the target's weekday, start
\* and end both are false; with the target on a slot and no slot of the neighbouring
\* ordinal on that day, that direction is false
C6_CannotDetermineIsFalse ==
    call.kind = "substitution" =>
        /\ call.raised = None
        /\ TargetSlots(call) = {} => (~call.has_hour_before /\ ~call.has_hour_after)
        /\ \A j \in TargetSlots(call) :
              /\ Numbered(call, hour_slots[j].hour_number - 1) = {} => ~call.has_hour_before
              /\ Numbered(call, hour_slots[j].hour_number + 1) = {} => ~call.has_hour_after

\* C6 witness: a target on a slot of ordinal above 1 with no slot of the ordinal before
\* it on the day, and a candidate with an occurrence on the target's date
C6_Witness ==
    /\ call.kind = "substitution"
    /\ \E j \in TargetSlots(call) :
          /\ hour_slots[j].hour_number > 1
          /\ Numbered(call, hour_slots[j].hour_number - 1) = {}
    /\ \E i \in 1..Len(assignments) :
          /\ assignments[i].teacher = call.obj.id
          /\ assignments[i].date = call.assignment_to_substitute.date
          /\ assignments[i].school_year = call.assignment_to_substitute.school_year
    /\ ~call.has_hour_before

\* the number of substitution-flagged rows of a teacher in a school and school-year
SubstitutionRows(teacher, school, school_year) ==
    Cardinality({ i \in 1..Len(assignments) :
        /\ assignments[i].teacher = teacher
        /\ assignments[i].school = school
        /\ assignments[i].school_year = school_year
        /\ assignments[i].substitution })

\* what a new row adds to the count of a teacher for a target
Increment(a, obj, target) ==
    IF /\ a.substitution
       /\ a.teacher = obj.id
       /\ a.school = obj.school
       /\ a.school_year = target.school_year
    THEN 1 ELSE 0

\* C8: substitutions_made_so_far is the number of substitution-flagged rows of the
\* candidate in the school and school-year; a new substitution-flagged row of a teacher
\* in that school and school-year raises that teacher's count by exactly 1 and no other
\* count, and any other new row changes no count
C8_SubstitutionCount ==
    /\ [](call.kind = "substitution" =>
            call.substitutions_made_so_far
                = SubstitutionRows(call.obj.id, call.assignment_to_substitute.school,
                                   call.assignment_to_substitute.school_year))
    /\ [][\A obj \in Teachers, target \in SubstAssignments :
            assignments' # assignments =>
                get_substitutions_made_so_far(obj, target)'
                    = get_substitutions_made_so_far(obj, target)
                        + Increment(assignments'[Len(assignments')], obj, target)]_vars

\* C8 witness: a substitution-flagged row was recorded last, and the call counts 1 for
\* its teacher while another row of the table is not counted
C8_Witness ==
    /\ call.kind = "substitution"
    /\ Len(assignments) >= 2
    /\ assignments[Len(assignments)].substitution
    /\ assignments[Len(assignments)].teacher = call.obj.id
    /\ call.substitutions_made_so_far = 1

\* C10: two evaluations of the adjacency fields over the same tables, target and
\* candidate give the same outputs, whichever order the rows are enumerated in
\* (stated as the claim has it, for another teacher's target)
C10_SameInputsSameOutputs ==
    [][(/\ call.kind = "substitution"
        /\ call'.kind = "substitution"
        /\ call.obj.id # call.assignment_to_substitute.teacher
        /\ call'.obj = call.obj
        /\ call'.assignment_to_substitute = call.assignment_to_substitute)
        => /\ call'.has_hour_before = call.has_hour_before
           /\ call'.has_hour_after = call.has_hour_after]_vars

\* C11: with the slot grid and the required hours fixed, recording one more occurrence
\* never raises the missing hours of any teacher's row, regular or special-needs,
\* whatever the window (stated as the claim has it)
C11_MissingHoursNeverRise ==
    [][(assignments' # assignments /\ hour_slots' = hour_slots) =>
        \A obj \in HoursPerTeacherInClass, start_date \in StartDates, end_date \in EndDates :
            /\ get_missing_hours(obj, start_date, end_date)'
                  <= get_missing_hours(obj, start_date, end_date)
            /\ get_missing_hours_bes(obj, start_date, end_date)'
                  <= get_missing_hours_bes(obj, start_date, end_date)]_vars

====
